---- MODULE Spec2Model ----
(***************************************************************************)
(* Catalog generator (cmd/generator/main.go): one reconciliation pass per  *)
(* invocation over the applications of apps.source.json, against the       *)
(* previously persisted catalog.json.                                      *)
(*                                                                         *)
(* Text that the code inspects character by character (release tags,       *)
(* versions, asset names, the asset filter) is a sequence of one-character *)
(* strings; text the code only copies or compares as a whole (IDs, URLs,   *)
(* metadata) is a TLA+ string.  The empty text is <<>> resp. "".           *)
(*                                                                         *)
(* Spec      invocations one after the other, apps.source.json edited and  *)
(*           days passing in between.                                      *)
(* SpecRun   one invocation, over any source list and prior catalog.       *)
(* SpecTwice two invocations, every upstream answering the second as it    *)
(*           answered the first.                                           *)
(***************************************************************************)
EXTENDS Integers, Sequences, FiniteSets, TLC

\* ------------------------------------------------------------------ bounds
MaxApps == 2      \* longest source list
MaxRuns == 2      \* invocations of the generator in one behaviour
MaxEdits == 1     \* edits of apps.source.json between invocations
MaxDay == 2       \* days the calendar can reach

\* --------------------------------------------------------- program constants
StatusOK == 200

\* ------------------------------------------------------------ text helpers
Lower(c) ==
    CASE c = "A" -> "a"
      [] c = "L" -> "l"
      [] c = "W" -> "w"
      [] OTHER -> c

\* strings.ToLower
ToLower(s) == [k \in 1..Len(s) |-> Lower(s[k])]

\* strings.Contains
Contains(s, sub) ==
    \E k \in 0..(Len(s) - Len(sub)) : SubSeq(s, k + 1, k + Len(sub)) = sub

\* Mutant: the tag taken as the version, prefix and all.
TrimPrefix_Kept(s, p) == s

\* strings.TrimPrefix
TrimPrefix(s, p) ==
    IF Len(s) >= Len(p) /\ SubSeq(s, 1, Len(p)) = p
    THEN SubSeq(s, Len(p) + 1, Len(s))
    ELSE s

\* ------------------------------------------------------------- map helpers
EmptyMap == [x \in {} |-> x]

Put(m, k, v) == [x \in (DOMAIN m) \cup {k} |-> IF x = k THEN v ELSE m[x]]

\* ------------------------------------------------------------ source list
IDs == {"a", "b"}

\* SourceApp.Config: a lookup of a key the map lacks yields the empty text,
\* so an absent key and an empty value are the same record here.
NoConfig == [repo |-> "", asset_filter |-> <<>>, url |-> "", regex |-> ""]

VersionRegex == "app-([0-9]*)\\.deb"
BadRegex == "app-([0-9]*"

Configs(strategy) ==
    CASE strategy = "github_release" ->
            {[NoConfig EXCEPT !.repo = "o/r", !.asset_filter = <<"l">>]}
      [] strategy = "direct_url_head" ->
            {[NoConfig EXCEPT !.url = "http://h/start", !.regex = VersionRegex],
             [NoConfig EXCEPT !.url = "http://h/start"],
             [NoConfig EXCEPT !.url = "http://h/start", !.regex = BadRegex]}
      [] strategy = "direct_static" ->
            {[NoConfig EXCEPT !.url = "http://s/app"], NoConfig}
      [] OTHER -> {NoConfig}

Strategies == {"github_release", "direct_url_head", "direct_static", "rss"}

\* type SourceApp
SourceApp(id, strategy, config) ==
    [ID |-> id, Name |-> "n", Description |-> "d", IconURL |-> "i",
     PackageName |-> "p", InstallType |-> "deb",
     Strategy |-> strategy, Config |-> config]

\* The applications a source list is made of.  Two of them share the ID "a":
\* nothing in loadSources rejects a list that names one ID twice.
SourceApps ==
    {SourceApp("a", "github_release", cf) : cf \in Configs("github_release")}
    \cup {SourceApp("a", "direct_static", cf) : cf \in Configs("direct_static")}
    \cup {SourceApp("b", "direct_url_head", cf) : cf \in Configs("direct_url_head")}
    \cup {SourceApp("b", "rss", cf) : cf \in Configs("rss")}

\* Applications of one repository, "o/app", that differ in the asset_filter
\* they configure: lower case, capitalised, and none.
AssetFilters ==
    {<<"l", "i", "n", "u", "x">>, <<"L", "i", "n", "u", "x">>, <<>>}

GithubApps ==
    {SourceApp("a", "github_release",
               [NoConfig EXCEPT !.repo = "o/app", !.asset_filter = f]) :
        f \in AssetFilters}

\* --------------------------------------------------------------- upstream
\* What the release API can answer to checkGithub's GET.
Asset(name, url, size) == [Name |-> name, BrowserDownloadURL |-> url, Size |-> size]

WinAsset == Asset(<<"w">>, "http://gh/win", 7)
LinuxAsset == Asset(<<"a", "L">>, "http://gh/linux", 1000)

Tags == {<<"v", "1">>, <<"2">>, <<"v">>}
AssetLists == {<<WinAsset>>, <<WinAsset, LinuxAsset>>}

GithubAnswers ==
    {[kind |-> "neterr"], [kind |-> "status", code |-> 404], [kind |-> "badjson"]}
    \cup {[kind |-> "release", TagName |-> t, Assets |-> as] :
            t \in Tags, as \in AssetLists}

\* What the release API can answer for the repository "o/app".
DebAsset == Asset(<<"L", "i", "n", "u", "x">>, "http://gh/Linux", 1000)
ArmAsset == Asset(<<"l", "i", "n", "u", "x", "2">>, "http://gh/linux2", 2000)

AppTags == {<<"v", "1">>, <<"v", "1", ".", "2", ".", "0">>}
AppAssetLists ==
    {<<>>, <<WinAsset>>, <<WinAsset, DebAsset>>, <<DebAsset, ArmAsset>>,
     <<ArmAsset, DebAsset>>}

AppGithubAnswers ==
    {[kind |-> "neterr"], [kind |-> "status", code |-> 404], [kind |-> "badjson"]}
    \cup {[kind |-> "release", TagName |-> t, Assets |-> as] :
            t \in AppTags, as \in AppAssetLists}

\* What the server can answer to checkDirectHead's HEAD, redirects followed.
FinalURLs == {"http://h/app-1.deb", "http://h/app-.deb", "http://h/latest"}

\* Response.ContentLength: -1 when the response has no length header.
ContentLengths == {-1, 500}

HeadAnswers ==
    {[kind |-> "neterr"], [kind |-> "status", code |-> 404]}
    \cup {[kind |-> "ok", URL |-> u, ContentLength |-> n] :
            u \in FinalURLs, n \in ContentLengths}

\* What the server can answer to downloadAndHash's GET.
Bodies == {<<7>>, <<8, 9>>}

\* A server that accepts the connection and then sends nothing.
Silent == [kind |-> "silent"]

GetAnswers ==
    {[kind |-> "neterr"], [kind |-> "status", code |-> 404], Silent}
    \cup {[kind |-> "ok", body |-> b, readErr |-> FALSE] : b \in Bodies}
    \cup {[kind |-> "ok", body |-> <<7>>, readErr |-> TRUE]}

NoAnswer == [kind |-> "none"]

\* http.Get refuses a URL without a scheme before anything is sent.
GetAnswersFor(url) == IF url = "" THEN {[kind |-> "neterr"]} ELSE GetAnswers

\* ------------------------------------------------------------- strategies
Result(version, url, size, err) ==
    [version |-> version, url |-> url, size |-> size, err |-> err]

Failure == Result(<<>>, "", 0, "error")

\* The first asset, in upstream order, that the loop of checkGithub returns.
RECURSIVE FirstAsset(_, _, _)
FirstAsset(assets, assetFilter, k) ==
    IF k > Len(assets) THEN 0
    ELSE IF Contains(ToLower(assets[k].Name), assetFilter) THEN k
    ELSE FirstAsset(assets, assetFilter, k + 1)

checkGithub(repo, assetFilter, resp) ==
    IF resp.kind = "neterr" THEN Failure
    ELSE IF resp.kind = "status" /\ resp.code # StatusOK THEN Failure
    ELSE IF resp.kind = "badjson" THEN Failure
    ELSE LET version == TrimPrefix(resp.TagName, <<"v">>)
             k == FirstAsset(resp.Assets, assetFilter, 1)
         IN  IF k = 0 THEN Failure
             ELSE Result(version, resp.Assets[k].BrowserDownloadURL,
                         resp.Assets[k].Size, "nil")

\* regexp.MustCompile accepts the pattern.
Compiles(regex) == regex # BadRegex

\* Regexp.FindStringSubmatch on the final URLs above: the whole match, then
\* the capture groups; the empty sequence when the pattern does not match.
FindStringSubmatch(regex, url) ==
    IF regex = ""
    THEN <<<<>>>>
    ELSE CASE url = "http://h/app-1.deb" ->
                <<<<"a", "p", "p", "-", "1", ".", "d", "e", "b">>, <<"1">>>>
           [] url = "http://h/app-.deb" ->
                <<<<"a", "p", "p", "-", ".", "d", "e", "b">>, <<>>>>
           [] OTHER -> <<>>

checkDirectHead(startURL, versionRegex, resp) ==
    IF resp.kind = "neterr" THEN Failure
    ELSE IF resp.kind = "status" /\ resp.code # StatusOK THEN Failure
    ELSE IF ~Compiles(versionRegex) THEN Result(<<>>, "", 0, "panic")
    ELSE LET matches == FindStringSubmatch(versionRegex, resp.URL)
         IN  IF Len(matches) < 2 THEN Failure
             ELSE Result(matches[2], resp.URL, resp.ContentLength, "nil")

\* time.Now().Format("2006.01.02") on day `day` of November 2026.
FormatDate(day) ==
    <<"2", "0", "2", "6", ".", "1", "1", ".", "0">>
    \o <<CASE day = 1 -> "1" [] day = 2 -> "2" [] day = 3 -> "3" [] OTHER -> "4">>

checkStrategy(src, resp, day) ==
    CASE src.Strategy = "github_release" ->
            checkGithub(src.Config.repo, src.Config.asset_filter, resp)
      [] src.Strategy = "direct_url_head" ->
            checkDirectHead(src.Config.url, src.Config.regex, resp)
      [] src.Strategy = "direct_static" ->
            Result(FormatDate(day), src.Config.url, 0, "nil")
      [] OTHER -> Failure

\* The answers the upstream of `src` can give to checkStrategy.
StrategyAnswers(src) ==
    CASE src.Strategy = "github_release" ->
            IF src.Config.repo = "o/app" THEN AppGithubAnswers ELSE GithubAnswers
      [] src.Strategy = "direct_url_head" -> HeadAnswers
      [] OTHER -> {NoAnswer}

\* ------------------------------------------------------- download and hash
\* hex.EncodeToString(hasher.Sum(nil)): one digest per byte stream, never the
\* empty text.
Sha256Hex(body) == <<"sha256">> \o body

Fetched(checksum, size, err) == [checksum |-> checksum, size |-> size, err |-> err]

FetchFailure == Fetched(<<>>, 0, "error")

\* http.Get uses http.DefaultClient, which has no timeout: with a silent server
\* the call never returns ("never").  The clients of checkGithub and
\* checkDirectHead have Timeout set, so there a silent server is one of the
\* transport errors ("neterr").
downloadAndHash(url, resp) ==
    IF resp.kind = "neterr" THEN FetchFailure
    ELSE IF resp.kind = "silent" THEN Fetched(<<>>, 0, "never")
    ELSE IF resp.kind = "status" /\ resp.code # StatusOK THEN FetchFailure
    ELSE IF resp.readErr THEN FetchFailure
    ELSE Fetched(Sha256Hex(resp.body), Len(resp.body), "nil")

\* ---------------------------------------------------------------- catalog
\* type CatalogApp
CatalogApp(src, version, url, checksum, size) ==
    [ID |-> src.ID, Name |-> src.Name, Description |-> src.Description,
     IconURL |-> src.IconURL, PackageName |-> src.PackageName,
     InstallType |-> src.InstallType,
     Version |-> version, DownloadURL |-> url, Checksum |-> checksum, Size |-> size]

\* type Catalog; LastUpdated 0 is the zero time.
Catalog(lastUpdated, apps) == [LastUpdated |-> lastUpdated, Apps |-> apps]

\* catalog.json: absent, the object saveCatalog writes, or the bare mapping
\* of an earlier format.
NoFile == [shape |-> "missing"]
WrappedFile(catalog) ==
    [shape |-> "wrapped", last_updated |-> catalog.LastUpdated, apps |-> catalog.Apps]
BareFile(apps) == [shape |-> "bare", apps |-> apps]

LegacyApp ==
    [ID |-> "a", Name |-> "n", Description |-> "d", IconURL |-> "i",
     PackageName |-> "p", InstallType |-> "deb",
     Version |-> <<"1">>, DownloadURL |-> "http://gh/linux",
     Checksum |-> Sha256Hex(<<1, 2, 3>>), Size |-> 1000]

\* The first attempt decodes into a struct with the one field "apps"; a bare
\* mapping has no such key and leaves it nil, and the second attempt then
\* decodes the whole document as the mapping.
loadCatalog(f) ==
    IF f.shape = "missing" THEN Catalog(0, EmptyMap)
    ELSE LET tempAppsNil == f.shape # "wrapped"
         IN  IF ~tempAppsNil THEN Catalog(0, f.apps)
             ELSE Catalog(0, [id \in DOMAIN f.apps |-> f.apps[id]])

saveCatalog(catalog) == WrappedFile(catalog)

\* ------------------------------------------------------------------ state
VARIABLES
    sources,       \* apps.source.json
    file,          \* catalog.json
    today,         \* the calendar day
    edits,         \* edits of apps.source.json so far
    run,           \* invocations so far; also the clock of time.Now()
    pc,            \* "idle", "loop", "done", "crashed"
    mode,          \* "fresh"; "record": the answers are kept; "replay": every
                   \* upstream answers as in the recorded run before
    oldCatalog,    \* main: oldCatalog
    newCatalog,    \* main: newCatalog
    changesCount,  \* main: changesCount
    idx,           \* main: position of the range loop, 1-based
    last,          \* the iteration that ended last: answers received, path taken
    trace,         \* recording or replaying: `last` of every iteration of this run
    prev,          \* replaying: the trace of the recorded run
    writes,        \* calls of saveCatalog in this run
    fileAtStart    \* catalog.json as this run found it

vars == <<sources, file, today, edits, run, pc, mode, oldCatalog, newCatalog,
          changesCount, idx, last, trace, prev, writes, fileAtStart>>

RECURSIVE SeqsUpTo(_, _)
SeqsUpTo(S, n) ==
    IF n = 0 THEN {<<>>}
    ELSE LET shorter == SeqsUpTo(S, n - 1)
         IN  shorter \cup {Append(q, x) : q \in shorter, x \in S}

NoIteration == [i |-> 0, sa |-> NoAnswer, ga |-> NoAnswer, path |-> "none"]

InitialFiles == {NoFile, BareFile([x \in {"a"} |-> LegacyApp])}

InitFrom(lists, files, days) ==
    /\ sources \in lists
    /\ file \in files
    /\ today \in days
    /\ edits = 0
    /\ run = 0
    /\ pc = "idle"
    /\ mode = "fresh"
    /\ oldCatalog = Catalog(0, EmptyMap)
    /\ newCatalog = Catalog(0, EmptyMap)
    /\ changesCount = 0
    /\ idx = 1
    /\ last = NoIteration
    /\ trace = <<>>
    /\ prev = <<>>
    /\ writes = 0
    /\ fileAtStart = file

InitWith(files, days) == InitFrom(SeqsUpTo(SourceApps, MaxApps), files, days)

Init == InitWith(InitialFiles, {1})

Resting == pc \in {"idle", "done", "crashed"}

\* Mutant: the new catalog starts as a copy of the old one.
FreshCatalog_FromOld(now) == Catalog(now, loadCatalog(file).Apps)

\* Lines 74-77.
FreshCatalog(now) == Catalog(now, EmptyMap)

\* main, lines 68-79: load both files, start an empty new catalog.
Begin(m) ==
    /\ run' = run + 1
    /\ pc' = "loop"
    /\ mode' = m
    /\ oldCatalog' = loadCatalog(file)
    /\ newCatalog' = FreshCatalog(run + 1)
    /\ changesCount' = 0
    /\ idx' = 1
    /\ last' = NoIteration
    /\ prev' = IF m = "replay" THEN trace ELSE <<>>
    /\ trace' = <<>>
    /\ writes' = 0
    /\ fileAtStart' = file
    /\ UNCHANGED <<sources, file, today, edits>>

StartRun ==
    /\ Resting
    /\ run < MaxRuns
    /\ Begin("fresh")

\* ------------------------------------------------------- the loop of main
src == sources[idx]

InLoop == pc = "loop" /\ idx <= Len(sources)

exists == src.ID \in DOMAIN oldCatalog.Apps

oldApp == oldCatalog.Apps[src.ID]

forceCheck == src.Strategy = "direct_static"

Replaying == mode = "replay" /\ idx <= Len(prev)

StrategyChoices ==
    IF Replaying THEN {prev[idx].sa} ELSE StrategyAnswers(src)

GetChoices(url) ==
    IF Replaying /\ prev[idx].ga # NoAnswer THEN {prev[idx].ga} ELSE GetAnswersFor(url)

\* Mutant: the comparison of line 102 inverted.
VersionUnchanged_Inverted(online) ==
    exists /\ ~forceCheck /\ oldApp.Version # online.version

\* Line 102: the prior entry has the version the strategy resolved.
VersionUnchanged(online) ==
    exists /\ ~forceCheck /\ oldApp.Version = online.version

\* Mutant: the synthetic date compared where line 120 compares the checksum.
HashUnchanged_ByVersion(fetched) ==
    forceCheck /\ exists /\ oldApp.Version = FormatDate(today)

\* Mutant: line 120 without its comparison, every static download an update.
HashUnchanged_Never(fetched) == FALSE

\* Line 120: the static link still has the content of the prior entry.
HashUnchanged(fetched) ==
    forceCheck /\ exists /\ oldApp.Checksum = fetched.checksum

\* Mutant: the declared size taken as it is, lines 129-131 left out.
finalSize_Declared(online, fetched) == online.size

\* Lines 128-131.
finalSize(online, fetched) ==
    IF online.size = 0 THEN fetched.size ELSE online.size

\* Lines 134-145.
newApp(online, fetched) ==
    CatalogApp(src, online.version, online.url, fetched.checksum,
               finalSize(online, fetched))

\* Mutant: the failure branches without their carry-forward.
CarryForward_Dropped == newCatalog.Apps

\* Mutant: a failure records what is known so far, the rest left empty.
CarryForward_Partial ==
    Put(newCatalog.Apps, src.ID, CatalogApp(src, <<>>, "", <<>>, 0))

\* Lines 90-92 and 115: the prior entry, if there is one.
CarryForward ==
    IF exists THEN Put(newCatalog.Apps, src.ID, oldApp) ELSE newCatalog.Apps

\* Mutant: a skip copies every prior entry the new catalog lacks, not only
\* the one of this application.
KeepOld_CopiesAll ==
    [x \in (DOMAIN oldCatalog.Apps) \cup (DOMAIN newCatalog.Apps) |->
        IF x \in DOMAIN newCatalog.Apps /\ x # src.ID
        THEN newCatalog.Apps[x]
        ELSE oldCatalog.Apps[x]]

\* Lines 104 and 122.
KeepOld == Put(newCatalog.Apps, src.ID, oldApp)

\* Mutant: the counter of line 148 moved to the end of every iteration.
Continue_CountsEvery(sa, ga, path, apps, changes) ==
    LET it == [i |-> idx, sa |-> sa, ga |-> ga, path |-> path]
    IN  /\ newCatalog' = [newCatalog EXCEPT !.Apps = apps]
        /\ changesCount' = changesCount + 1
        /\ last' = it
        /\ trace' = IF mode = "fresh" THEN trace ELSE Append(trace, it)
        /\ idx' = idx + 1
        /\ UNCHANGED <<sources, file, today, edits, run, pc, mode, oldCatalog,
                       prev, writes, fileAtStart>>

\* One iteration ends: `continue`, or the end of the loop body.
Continue(sa, ga, path, apps, changes) ==
    LET it == [i |-> idx, sa |-> sa, ga |-> ga, path |-> path]
    IN  /\ newCatalog' = [newCatalog EXCEPT !.Apps = apps]
        /\ changesCount' = changes
        /\ last' = it
        /\ trace' = IF mode = "fresh" THEN trace ELSE Append(trace, it)
        /\ idx' = idx + 1
        /\ UNCHANGED <<sources, file, today, edits, run, pc, mode, oldCatalog,
                       prev, writes, fileAtStart>>

\* Lines 87-94.
StrategyFailed ==
    /\ InLoop
    /\ \E sa \in StrategyChoices :
         /\ checkStrategy(src, sa, today).err = "error"
         /\ Continue(sa, NoAnswer, "CarryOldOrAbsent", CarryForward, changesCount)

\* Line 233: regexp.MustCompile panics and the process dies.
StrategyPanics ==
    /\ InLoop
    /\ \E sa \in StrategyChoices :
         /\ checkStrategy(src, sa, today).err = "panic"
         /\ pc' = "crashed"
         /\ trace' = IF mode = "fresh" THEN trace
                     ELSE Append(trace, [i |-> idx, sa |-> sa, ga |-> NoAnswer,
                                         path |-> "Panic"])
         /\ UNCHANGED <<sources, file, today, edits, run, mode, oldCatalog,
                        newCatalog, changesCount, idx, last, prev, writes,
                        fileAtStart>>

\* Lines 98-106.
VersionSkip ==
    /\ InLoop
    /\ \E sa \in StrategyChoices :
         LET online == checkStrategy(src, sa, today)
         IN  /\ online.err = "nil"
             /\ VersionUnchanged(online)
             /\ Continue(sa, NoAnswer, "Skip", KeepOld, changesCount)

\* Lines 111-117.
DownloadFailed ==
    /\ InLoop
    /\ \E sa \in StrategyChoices :
         LET online == checkStrategy(src, sa, today)
         IN  /\ online.err = "nil"
             /\ ~VersionUnchanged(online)
             /\ \E ga \in GetChoices(online.url) :
                  /\ downloadAndHash(online.url, ga).err = "error"
                  /\ Continue(sa, ga, "CarryOldOrAbsent", CarryForward, changesCount)

\* Line 249: the GET never returns and the process waits for ever.
DownloadHangs ==
    /\ InLoop
    /\ \E sa \in StrategyChoices :
         LET online == checkStrategy(src, sa, today)
         IN  /\ online.err = "nil"
             /\ ~VersionUnchanged(online)
             /\ \E ga \in GetChoices(online.url) :
                  downloadAndHash(online.url, ga).err = "never"
    /\ pc' = "hung"
    /\ UNCHANGED <<sources, file, today, edits, run, mode, oldCatalog,
                   newCatalog, changesCount, idx, last, trace, prev, writes,
                   fileAtStart>>

\* Lines 119-124.
HashSkip ==
    /\ InLoop
    /\ \E sa \in StrategyChoices :
         LET online == checkStrategy(src, sa, today)
         IN  /\ online.err = "nil"
             /\ ~VersionUnchanged(online)
             /\ \E ga \in GetChoices(online.url) :
                  LET fetched == downloadAndHash(online.url, ga)
                  IN  /\ fetched.err = "nil"
                      /\ HashUnchanged(fetched)
                      /\ Continue(sa, ga, "SkipPreserveOld", KeepOld, changesCount)

\* Lines 126-149.
Update ==
    /\ InLoop
    /\ \E sa \in StrategyChoices :
         LET online == checkStrategy(src, sa, today)
         IN  /\ online.err = "nil"
             /\ ~VersionUnchanged(online)
             /\ \E ga \in GetChoices(online.url) :
                  LET fetched == downloadAndHash(online.url, ga)
                  IN  /\ fetched.err = "nil"
                      /\ ~HashUnchanged(fetched)
                      /\ Continue(sa, ga, "Updated",
                                  Put(newCatalog.Apps, src.ID, newApp(online, fetched)),
                                  changesCount + 1)

\* Mutant: line 153 without the first-run case.
MustSave_ChangesOnly == changesCount > 0

\* Line 153.
MustSave == changesCount > 0 \/ Cardinality(DOMAIN oldCatalog.Apps) = 0

AfterLoop == pc = "loop" /\ idx > Len(sources)

\* Lines 153-155.
Save ==
    /\ AfterLoop
    /\ MustSave
    /\ file' = saveCatalog(newCatalog)
    /\ writes' = writes + 1
    /\ pc' = "done"
    /\ UNCHANGED <<sources, today, edits, run, mode, oldCatalog, newCatalog,
                   changesCount, idx, last, trace, prev, fileAtStart>>

\* Lines 156-158.
NoSave ==
    /\ AfterLoop
    /\ ~MustSave
    /\ pc' = "done"
    /\ UNCHANGED <<sources, file, today, edits, run, mode, oldCatalog, newCatalog,
                   changesCount, idx, last, trace, prev, writes, fileAtStart>>

\* ------------------------------------------------ between two invocations
Between == Resting /\ 0 < run /\ run < MaxRuns

\* The process has exited: its locals are gone.
Exited ==
    /\ pc' = "idle"
    /\ mode' = "fresh"
    /\ oldCatalog' = Catalog(0, EmptyMap)
    /\ newCatalog' = Catalog(0, EmptyMap)
    /\ changesCount' = 0
    /\ idx' = 1
    /\ last' = NoIteration
    /\ trace' = <<>>
    /\ prev' = <<>>
    /\ writes' = 0
    /\ fileAtStart' = file
    /\ UNCHANGED <<file, run>>

MetadataFields == {"Name", "Description", "IconURL", "PackageName", "InstallType"}

\* Somebody edits one metadata field of one application in apps.source.json.
EditMetadata ==
    /\ Between
    /\ edits < MaxEdits
    /\ \E i \in 1..Len(sources), f \in MetadataFields :
         sources' = [sources EXCEPT ![i] = [@ EXCEPT ![f] = "edited"]]
    /\ edits' = edits + 1
    /\ UNCHANGED today
    /\ Exited

\* Somebody removes one application from apps.source.json.
RemoveApp ==
    /\ Between
    /\ edits < MaxEdits
    /\ \E i \in 1..Len(sources) :
         sources' = SubSeq(sources, 1, i - 1) \o SubSeq(sources, i + 1, Len(sources))
    /\ edits' = edits + 1
    /\ UNCHANGED today
    /\ Exited

DayPasses ==
    /\ Between
    /\ today < MaxDay
    /\ today' = today + 1
    /\ UNCHANGED <<sources, edits>>
    /\ Exited

Next ==
    \/ StartRun
    \/ StrategyFailed
    \/ StrategyPanics
    \/ VersionSkip
    \/ DownloadFailed
    \/ DownloadHangs
    \/ HashSkip
    \/ Update
    \/ Save
    \/ NoSave
    \/ EditMetadata
    \/ RemoveApp
    \/ DayPasses

Spec == Init /\ [][Next]_vars

\* ------------------------------------ one invocation, any prior catalog
\* Entries an earlier run has left: of a static link on day 1, of a redirect,
\* and of an application that is no longer in the source list.
StaticOldApp ==
    [LegacyApp EXCEPT !.Version = FormatDate(1), !.DownloadURL = "http://s/app",
                      !.Checksum = Sha256Hex(<<7>>), !.Size = 1]

HeadOldApp ==
    [LegacyApp EXCEPT !.ID = "b", !.DownloadURL = "http://h/app-1.deb",
                      !.Checksum = Sha256Hex(<<8, 9>>), !.Size = 500]

StaleApp == [LegacyApp EXCEPT !.ID = "c"]

PersistedFiles ==
    InitialFiles
    \cup {WrappedFile(Catalog(1, [x \in {"a", "b", "c"} |->
                                    CASE x = "a" -> StaticOldApp
                                      [] x = "b" -> HeadOldApp
                                      [] OTHER -> StaleApp]))}

InitRun == InitWith(PersistedFiles, 1..MaxDay)

StartOnce ==
    /\ pc = "idle"
    /\ run = 0
    /\ Begin("fresh")

NextRun ==
    \/ StartOnce
    \/ StrategyFailed
    \/ StrategyPanics
    \/ VersionSkip
    \/ DownloadFailed
    \/ DownloadHangs
    \/ HashSkip
    \/ Update
    \/ Save
    \/ NoSave

SpecRun == InitRun /\ [][NextRun]_vars

\* ------------------------- one invocation over github_release applications
InitGithub == InitFrom(SeqsUpTo(GithubApps, MaxApps), PersistedFiles, {1})

NextGithub ==
    \/ StartOnce
    \/ StrategyFailed
    \/ VersionSkip
    \/ DownloadFailed
    \/ DownloadHangs
    \/ Update
    \/ Save
    \/ NoSave

SpecGithub == InitGithub /\ [][NextGithub]_vars

\* ------------------------------------- two invocations, the same upstream
\* Both on the last day of the calendar; the prior entries are of day 1.
InitTwice == InitWith(PersistedFiles, {MaxDay})

StartRecorded ==
    /\ pc = "idle"
    /\ run = 0
    /\ Begin("record")

\* The next invocation, with every upstream answering as in the run before.
StartReplay ==
    /\ pc \in {"done", "crashed"}
    /\ mode = "record"
    /\ Begin("replay")

NextTwice ==
    \/ StartRecorded
    \/ StartReplay
    \/ StrategyFailed
    \/ StrategyPanics
    \/ VersionSkip
    \/ DownloadFailed
    \/ DownloadHangs
    \/ HashSkip
    \/ Update
    \/ Save
    \/ NoSave

SpecTwice == InitTwice /\ [][NextTwice]_vars

\* ================================================================ claims
\* What the iteration that ended last was given and computed.
lastSrc == sources[last.i]
lastOnline == checkStrategy(lastSrc, last.sa, today)
lastFetched == downloadAndHash(lastOnline.url, last.ga)
Iterated == last.i > 0
Downloaded == last.ga # NoAnswer
oldApps == oldCatalog.Apps
newApps == newCatalog.Apps

\* A step of the loop that ends the iteration of sources[idx].
IterationStep == pc = "loop" /\ idx <= Len(sources) /\ last'.i = idx
stepOnline == checkStrategy(src, last'.sa, today)
stepFetched == downloadAndHash(stepOnline.url, last'.ga)

\* C2: an application that is not direct_static, has a prior entry and resolves
\* the prior entry's version is not downloaded, and its iteration leaves the
\* prior entry, every field of it, under its ID in the new catalog.
C2_VersionUnchangedFastPath ==
    (/\ Iterated
     /\ lastSrc.Strategy # "direct_static"
     /\ lastSrc.ID \in DOMAIN oldApps
     /\ lastOnline.err = "nil"
     /\ oldApps[lastSrc.ID].Version = lastOnline.version)
    => /\ ~Downloaded
       /\ lastSrc.ID \in DOMAIN newApps
       /\ newApps[lastSrc.ID] = oldApps[lastSrc.ID]

C2_Witness ==
    /\ Iterated
    /\ lastSrc.Strategy = "github_release"
    /\ lastSrc.ID \in DOMAIN oldApps
    /\ lastOnline.err = "nil"
    /\ oldApps[lastSrc.ID].Version = lastOnline.version
    /\ last.path = "Skip"

\* The new catalog after an iteration that keeps the prior entry of sources[idx]
\* if there is one, and records nothing otherwise.
CarriedOrAbsent ==
    IF src.ID \in DOMAIN oldApps
    THEN [x \in (DOMAIN newApps) \cup {src.ID} |->
            IF x = src.ID THEN oldApps[src.ID] ELSE newApps[x]]
    ELSE newApps

\* C3: when the strategy step fails for an application, no download is
\* attempted, its iteration records the prior entry unchanged if there is one
\* and records no entry otherwise, and the loop moves on to the next application.
C3_StrategyFailureCarriesForward ==
    [][(IterationStep /\ stepOnline.err = "error")
       => /\ last'.ga = NoAnswer
          /\ newApps' = CarriedOrAbsent
          /\ oldCatalog' = oldCatalog
          /\ changesCount' = changesCount
          /\ pc' = "loop"
          /\ idx' = idx + 1]_vars

C3_Witness ==
    /\ Iterated
    /\ lastOnline.err = "error"
    /\ lastSrc.ID \in DOMAIN oldApps
    /\ newApps[lastSrc.ID] = oldApps[lastSrc.ID]
    /\ pc = "loop"
    /\ idx <= Len(sources)

\* An entry assembled as a whole from one strategy result and one download of
\* an application of the source list.
WholeFresh(e) ==
    \E i \in 1..Len(sources) :
      \E sa \in StrategyAnswers(sources[i]) :
        LET online == checkStrategy(sources[i], sa, today)
        IN  /\ online.err = "nil"
            /\ \E ga \in GetAnswersFor(online.url) :
                 LET fetched == downloadAndHash(online.url, ga)
                 IN  /\ fetched.err = "nil"
                     /\ e = CatalogApp(sources[i], online.version, online.url,
                                       fetched.checksum,
                                       IF online.size = 0 THEN fetched.size
                                       ELSE online.size)

NoMixedEntry ==
    \A id \in DOMAIN newApps :
        \/ id \in DOMAIN oldApps /\ newApps[id] = oldApps[id]
        \/ WholeFresh(newApps[id])

\* C4: when the download fails for an application, its iteration records the
\* prior entry unchanged if there is one and no entry otherwise; and every
\* entry of the new catalog is either the prior entry or assembled as a whole
\* from this run's strategy result and download, never a mix of the two.
C4_DownloadFailureNoPartialEntry ==
    /\ []NoMixedEntry
    /\ [][(/\ IterationStep
           /\ stepOnline.err = "nil"
           /\ last'.ga # NoAnswer
           /\ stepFetched.err # "nil")
          => /\ newApps' = CarriedOrAbsent
             /\ changesCount' = changesCount]_vars

C4_Witness ==
    /\ Iterated
    /\ lastOnline.err = "nil"
    /\ Downloaded
    /\ lastFetched.err # "nil"
    /\ lastSrc.ID \in DOMAIN oldApps
    /\ lastOnline.version # oldApps[lastSrc.ID].Version
    /\ newApps[lastSrc.ID] = oldApps[lastSrc.ID]

\* C5: when a direct_static application has a prior entry and this run's
\* download has the prior entry's checksum, its iteration records the prior
\* entry unchanged, the older date included, and does not count a change.
C5_StaticHashSkip ==
    [][(/\ IterationStep
        /\ src.Strategy = "direct_static"
        /\ src.ID \in DOMAIN oldApps
        /\ stepOnline.err = "nil"
        /\ last'.ga # NoAnswer
        /\ stepFetched.err = "nil"
        /\ stepFetched.checksum = oldApps[src.ID].Checksum)
       => /\ src.ID \in DOMAIN newApps'
          /\ newApps'[src.ID] = oldApps[src.ID]
          /\ changesCount' = changesCount]_vars

C5_Witness ==
    /\ Iterated
    /\ lastSrc.Strategy = "direct_static"
    /\ lastSrc.ID \in DOMAIN oldApps
    /\ Downloaded
    /\ lastFetched.err = "nil"
    /\ lastFetched.checksum = oldApps[lastSrc.ID].Checksum
    /\ oldApps[lastSrc.ID].Version # FormatDate(today)
    /\ newApps[lastSrc.ID].Version = oldApps[lastSrc.ID].Version
    /\ changesCount = 0

RunEnded == pc \in {"done", "crashed"}

\* C6: a run has written catalog.json exactly when its change count is
\* positive or the catalog it loaded had no entries; it writes once, the whole
\* new catalog, and never before the loop has ended; a run that does not write
\* leaves catalog.json as it found it.
C6_PersistRule ==
    /\ writes \in {0, 1}
    /\ ~RunEnded => writes = 0
    /\ RunEnded =>
         (writes = 1 <=> (changesCount > 0 \/ DOMAIN oldApps = {}))
    /\ writes = 0 => file = fileAtStart
    /\ writes = 1 => /\ idx > Len(sources)
                     /\ file.shape = "wrapped"
                     /\ file.apps = newApps

\* The same rule for the runs that reach line 153; it holds.
PersistRuleAfterLoop ==
    /\ writes \in {0, 1}
    /\ pc # "done" => writes = 0
    /\ pc = "done" =>
         (writes = 1 <=> (changesCount > 0 \/ DOMAIN oldApps = {}))
    /\ writes = 0 => file = fileAtStart
    /\ writes = 1 => /\ idx > Len(sources)
                     /\ file.shape = "wrapped"
                     /\ file.apps = newApps

SameMetadata(e, s) ==
    /\ e.Name = s.Name
    /\ e.Description = s.Description
    /\ e.IconURL = s.IconURL
    /\ e.PackageName = s.PackageName
    /\ e.InstallType = s.InstallType

\* C7: an entry that an application's iteration put into the new catalog by
\* the update path or by one of the two skip paths carries the name,
\* description, icon reference, package name and install type of the
\* application's current source descriptor.
C7_MetadataFreshness ==
    (Iterated /\ last.path \in {"Updated", "Skip", "SkipPreserveOld"})
    => /\ lastSrc.ID \in DOMAIN newApps
       /\ SameMetadata(newApps[lastSrc.ID], lastSrc)

\* catalog.json as the next run would load it.
PersistedApps == loadCatalog(file).Apps

SourceIDs == {sources[i].ID : i \in 1..Len(sources)}

\* C8 as stated: no step ever removes an entry from the persisted catalog.
C8_NeverDeleted ==
    [][\A id \in DOMAIN PersistedApps : id \in DOMAIN PersistedApps']_vars

\* The step is the saveCatalog of a run.
Wrote == pc = "loop" /\ writes' = writes + 1

\* C8, amended: an entry whose ID is in the source list survives every step;
\* an entry whose ID is not in the source list survives every step except a
\* run's write of the catalog, which drops it.
C8_DroppedByTheNextWrite ==
    [][\A id \in DOMAIN PersistedApps :
         IF id \in SourceIDs
         THEN id \in DOMAIN PersistedApps'
         ELSE (id \in DOMAIN PersistedApps' <=> ~Wrote)]_vars

C8_Witness ==
    /\ pc = "done"
    /\ writes = 1
    /\ changesCount = 1
    /\ SourceIDs = {"b"}
    /\ DOMAIN oldApps = {"a", "b", "c"}
    /\ DOMAIN PersistedApps = {"b"}
    /\ PersistedApps["b"] # oldApps["b"]

\* C9: an entry recorded by the update path has the size the strategy
\* declared if that is not zero, and the number of bytes of the downloaded
\* body if it is zero.
C9_SizeRule ==
    (Iterated /\ last.path = "Updated")
    => newApps[lastSrc.ID].Size =
         IF lastOnline.size # 0 THEN lastOnline.size ELSE Len(last.ga.body)

C9_Witness ==
    /\ Iterated
    /\ last.path = "Updated"
    /\ lastOnline.size = 0
    /\ Len(last.ga.body) = 2
    /\ newApps[lastSrc.ID].Size = 2

Populated(e) ==
    /\ e.Version # <<>>
    /\ e.DownloadURL # ""
    /\ e.Checksum # <<>>

\* C10: if every entry of the loaded catalog has a version, a download URL
\* and a checksum, so has every entry of the new catalog, at every point of
\* the run.
C10_EntryCompleteness ==
    (\A id \in DOMAIN oldApps : Populated(oldApps[id]))
    => (\A id \in DOMAIN newApps : Populated(newApps[id]))

UniqueIDs == \A i, j \in 1..Len(sources) : sources[i].ID = sources[j].ID => i = j

SecondRunDone == pc = "done" /\ mode = "replay"

\* C1 as stated: the second of two runs with the same upstream answers builds
\* the catalog it loaded, counts no change and does not write.
C1_Idempotence ==
    SecondRunDone
    => /\ newApps = oldApps
       /\ changesCount = 0
       /\ writes = 0

SecondRunEnded == RunEnded /\ mode = "replay"

FirstRunPanicked == Len(prev) > 0 /\ prev[Len(prev)].path = "Panic"

\* C1, amended: with no ID listed twice, the second run either dies where the
\* first run died, nothing written by either, or counts no change and gives
\* every listed application the entry it had in the loaded catalog, or none if
\* it had none; so the new catalog is the loaded one when that holds no ID
\* outside the source list; and the second run writes only if the catalog it
\* loaded is empty.
C1_IdempotenceUniqueIDs ==
    (SecondRunEnded /\ UniqueIDs)
    => IF pc = "crashed"
       THEN /\ FirstRunPanicked
            /\ trace = prev
            /\ writes = 0
            /\ file = fileAtStart
       ELSE /\ ~FirstRunPanicked
            /\ changesCount = 0
            /\ DOMAIN newApps = (DOMAIN oldApps) \cap SourceIDs
            /\ \A id \in DOMAIN newApps : newApps[id] = oldApps[id]
            /\ (DOMAIN oldApps \subseteq SourceIDs) => newApps = oldApps
            /\ writes = 1 <=> DOMAIN oldApps = {}

C1_Witness ==
    /\ SecondRunDone
    /\ UniqueIDs
    /\ Len(sources) = 2
    /\ \A k \in 1..2 : prev[k].path = "Updated"
    /\ \A k \in 1..2 : trace[k].path \in {"Skip", "SkipPreserveOld"}
    /\ newApps = oldApps
    /\ writes = 0

\* C11: once the source list has been read, no failure while one application
\* is processed aborts the run: the run never dies inside the loop, so every
\* later application is processed and the persist decision is reached.
C11_PerAppErrorsNeverFatal == pc # "crashed"

\* The first asset, in upstream order, whose name contains the filter when
\* both are compared without regard to letter case; 0 when there is none.
FirstMatch(assets, assetFilter) ==
    LET hits == {k \in 1..Len(assets) :
                   Contains(ToLower(assets[k].Name), ToLower(assetFilter))}
    IN  IF hits = {} THEN 0 ELSE CHOOSE k \in hits : \A j \in hits : k <= j

\* C12: for every asset list and every configured filter, of any letter case,
\* the github_release strategy returns the download URL and the size of the
\* first asset whose name contains the filter, both compared case-insensitively,
\* and fails exactly when no asset matches in that sense.
C12_GithubAssetSelection ==
    (/\ Iterated
     /\ lastSrc.Strategy = "github_release"
     /\ last.sa.kind = "release")
    => LET k == FirstMatch(last.sa.Assets, lastSrc.Config.asset_filter)
       IN  IF k = 0
           THEN lastOnline.err = "error"
           ELSE /\ lastOnline.err = "nil"
                /\ lastOnline.url = last.sa.Assets[k].BrowserDownloadURL
                /\ lastOnline.size = last.sa.Assets[k].Size

\* The bootstrap scenario: no catalog file, one github_release application, the
\* release v1.2.0 with exactly one asset whose name contains the filter, of
\* declared size 1000, and a download that delivers a whole body.
BootstrapScenario ==
    /\ pc = "done"
    /\ fileAtStart = NoFile
    /\ Len(sources) = 1
    /\ sources[1].Strategy = "github_release"
    /\ last.i = 1
    /\ last.sa.kind = "release"
    /\ last.sa.TagName = <<"v", "1", ".", "2", ".", "0">>
    /\ Cardinality({k \in 1..Len(last.sa.Assets) :
                      Contains(ToLower(last.sa.Assets[k].Name),
                               ToLower(sources[1].Config.asset_filter))}) = 1
    /\ FirstMatch(last.sa.Assets, sources[1].Config.asset_filter) # 0
    /\ last.sa.Assets[FirstMatch(last.sa.Assets,
                                 sources[1].Config.asset_filter)].Size = 1000
    /\ last.ga.kind = "ok"
    /\ ~last.ga.readErr

\* The entry the scenario expects: version 1.2.0, size 1000, the digest of the
\* downloaded body.
BootstrapEntry ==
    /\ DOMAIN newApps = {sources[1].ID}
    /\ newApps[sources[1].ID].Version = <<"1", ".", "2", ".", "0">>
    /\ newApps[sources[1].ID].Size = 1000
    /\ newApps[sources[1].ID].Checksum = Sha256Hex(last.ga.body)

BootstrapPersisted ==
    /\ writes = 1
    /\ file = saveCatalog(newCatalog)

\* C13: the bootstrap run ends with the entry version 1.2.0, size 1000,
\* checksum d, with zero entries counted as changed, and with the catalog
\* persisted.
C13_BootstrapRun ==
    BootstrapScenario
    => /\ BootstrapEntry
       /\ changesCount = 0
       /\ BootstrapPersisted

\* C13, amended: with the asset_filter "linux" the bootstrap run ends with that
\* entry, with one entry counted as changed, and with the catalog persisted.
C13_BootstrapRunCountsOne ==
    (BootstrapScenario /\ sources[1].Config.asset_filter = <<"l", "i", "n", "u", "x">>)
    => /\ BootstrapEntry
       /\ changesCount = 1
       /\ MustSave
       /\ BootstrapPersisted

C13_Witness ==
    /\ BootstrapScenario
    /\ sources[1].Config.asset_filter = <<"l", "i", "n", "u", "x">>
    /\ BootstrapEntry
    /\ changesCount = 1
    /\ writes = 1

\* C17: every network operation of a run has a fixed per-call timeout: the run
\* is never left waiting without end for an upstream that does not answer, so
\* it goes on to its persist decision.
C17_BoundedNetworkOperations == pc # "hung"

\* C18: when direct_url_head succeeds on a response without a length header
\* and the download succeeds, the entry recorded in the update path has the
\* byte count measured during the download as its size, and never a negative
\* size.
C18_SizeBackfillWithoutLengthHeader ==
    (/\ Iterated
     /\ last.path = "Updated"
     /\ lastSrc.Strategy = "direct_url_head"
     /\ last.sa.ContentLength = -1)
    => /\ newApps[lastSrc.ID].Size = Len(last.ga.body)
       /\ newApps[lastSrc.ID].Size >= 0

\* The last iteration recorded a fresh entry for an application that had a
\* prior entry.
UpdatedOverPrior ==
    /\ Iterated
    /\ last.path = "Updated"
    /\ lastSrc.ID \in DOMAIN oldApps

\* The fresh entry differs from the prior one: in version, or for a
\* direct_static application in checksum.
RealChange ==
    IF lastSrc.Strategy = "direct_static"
    THEN lastFetched.checksum # oldApps[lastSrc.ID].Checksum
    ELSE lastOnline.version # oldApps[lastSrc.ID].Version

\* The new catalog differs from the old one at an application of the source
\* list.
DiffersAtSourceID ==
    \E id \in SourceIDs :
       \/ (id \in DOMAIN newApps) # (id \in DOMAIN oldApps)
       \/ /\ id \in DOMAIN newApps
          /\ id \in DOMAIN oldApps
          /\ newApps[id] # oldApps[id]

WroteOverPrior == pc = "done" /\ writes = 1 /\ DOMAIN oldApps # {}

\* C19: an application with a prior entry that reaches the update path gets an
\* entry that differs from the prior one in version, or in checksum if it is
\* direct_static; and a run that loaded a non-empty catalog writes only if the
\* new catalog differs from the old one at some ID of the source list.
C19_CountedChangeIsRealChange ==
    /\ UpdatedOverPrior => RealChange
    /\ WroteOverPrior => DiffersAtSourceID

\* C19, amended: the first half as claimed; the second half for source lists
\* that name no ID twice.
C19_RealChangeUniqueIDs ==
    /\ UpdatedOverPrior => RealChange
    /\ (UpdatedOverPrior /\ idx = last.i + 1 /\ pc = "loop")
          => newApps[lastSrc.ID] # oldApps[lastSrc.ID]
    /\ (WroteOverPrior /\ UniqueIDs) => DiffersAtSourceID

C19_Witness ==
    /\ WroteOverPrior
    /\ UniqueIDs
    /\ Len(sources) = 2
    /\ changesCount = 1
    /\ UpdatedOverPrior
    /\ RealChange
    /\ DiffersAtSourceID

\* The iteration that ends with this step assigns newCatalog.Apps[src.ID]:
\* lines 92, 104, 122 and 147.
AssignsKey ==
    \/ last'.path \in {"Skip", "SkipPreserveOld", "Updated"}
    \/ last'.path = "CarryOldOrAbsent" /\ src.ID \in DOMAIN oldApps

\* The step leaves every key of the new catalog but src.ID as it is.
OnlyOwnKey ==
    /\ DOMAIN newApps \subseteq DOMAIN newApps'
    /\ \A id \in DOMAIN newApps' :
         id # src.ID => id \in DOMAIN newApps /\ newApps'[id] = newApps[id]

\* What the iteration decides is decided on the old catalog: the key is
\* assigned the prior entry on a skip or a carry-forward, whatever the new
\* catalog holds under it.
ComparedWithOld ==
    /\ last'.path = "Skip"
          => /\ src.ID \in DOMAIN oldApps
             /\ oldApps[src.ID].Version = stepOnline.version
    /\ last'.path = "SkipPreserveOld"
          => /\ src.ID \in DOMAIN oldApps
             /\ oldApps[src.ID].Checksum = stepFetched.checksum
    /\ (AssignsKey /\ last'.path # "Updated")
          => newApps'[src.ID] = oldApps[src.ID]

\* C16: during a run the old catalog is never modified, every comparison is
\* made against the old catalog, each iteration assigns at most one key of the
\* new catalog, and no key of the new catalog is assigned more than once.
C16_OldReadOnlyNewWriteOnce ==
    [][/\ pc = "loop" => oldCatalog' = oldCatalog
       /\ IterationStep
            => /\ ComparedWithOld
               /\ OnlyOwnKey
               /\ AssignsKey => src.ID \notin DOMAIN newApps]_vars

\* C16, amended: a key is assigned again only by a further iteration for the
\* same ID, which a source list that names the ID twice brings about.
C16_WriteOncePerListedID ==
    [][/\ pc = "loop" => oldCatalog' = oldCatalog
       /\ IterationStep
            => /\ ComparedWithOld
               /\ OnlyOwnKey
               /\ (AssignsKey /\ src.ID \in DOMAIN newApps)
                     => \E j \in 1..(idx - 1) : sources[j].ID = src.ID
               /\ (AssignsKey /\ UniqueIDs) => src.ID \notin DOMAIN newApps]_vars

C16_Witness ==
    /\ pc = "done"
    /\ UniqueIDs
    /\ Len(sources) = 2
    /\ DOMAIN oldApps = {"a", "b", "c"}
    /\ DOMAIN newApps = {"a", "b"}
    /\ newApps["a"] = oldApps["a"]
    /\ newApps["b"] # oldApps["b"]
    /\ oldCatalog = loadCatalog(fileAtStart)

\* The terminal states of one application's reconciliation.
TerminalStates == {"CarryOldOrAbsent", "Skip", "SkipPreserveOld", "Updated"}

\* The run keeps a record per strategy call: the records so far are those of
\* the applications 1, 2, ... in this order, one each, every one with one
\* terminal state, and with a download only where the strategy had succeeded.
OneRecordEach ==
    \A k \in 1..Len(trace) :
       /\ trace[k].i = k
       /\ trace[k].path \in TerminalStates
       /\ trace[k].ga # NoAnswer
            => checkStrategy(sources[k], trace[k].sa, today).err = "nil"
       /\ trace[k].path \in {"SkipPreserveOld", "Updated"} => trace[k].ga # NoAnswer

\* The run is over, or will never move again.
RunStopped == pc \in {"done", "crashed", "hung"}

\* C14: in one run the strategy is invoked exactly once for each application
\* of the source list and the download at most once and only after the
\* strategy succeeded; each application reaches exactly one terminal state,
\* and the next application's strategy is not invoked before that.
C14_OneOutcomePerApplication ==
    mode # "fresh"
    => /\ OneRecordEach
       /\ pc = "loop" => Len(trace) = idx - 1
       /\ RunStopped => Len(trace) = Len(sources)

\* The same for the runs that reach line 153.
OneOutcomeWhenLoopEnds ==
    mode # "fresh"
    => /\ pc \in {"loop", "done"} => OneRecordEach /\ Len(trace) = idx - 1
       /\ pc = "done" => Len(trace) = Len(sources)

\* The applications that reached the update path in this run.
UpdatedApps == {k \in 1..Len(trace) : trace[k].path = "Updated"}

\* C15: at the end of every run, and at every point of it, the change count
\* is the number of applications that reached the update path; an iteration
\* that ends in a version skip, a checksum skip or a carry-forward leaves the
\* count as it is.
C15_ChangeCounting ==
    /\ [](mode # "fresh" => changesCount = Cardinality(UpdatedApps))
    /\ [][IterationStep
            => changesCount' = IF last'.path = "Updated"
                               THEN changesCount + 1
                               ELSE changesCount]_vars

C15_Witness ==
    /\ pc = "done"
    /\ mode = "record"
    /\ Len(sources) = 2
    /\ trace[1].path = "Updated"
    /\ trace[2].path \in {"Skip", "SkipPreserveOld", "CarryOldOrAbsent"}
    /\ changesCount = 1

\* The version, download URL, checksum and size that one strategy call and one
\* download of one application, both successful, give to an entry.
OneRunFields ==
    {<<checkStrategy(s, sa, day).version,
       checkStrategy(s, sa, day).url,
       downloadAndHash(checkStrategy(s, sa, day).url, ga).checksum,
       IF checkStrategy(s, sa, day).size = 0
       THEN downloadAndHash(checkStrategy(s, sa, day).url, ga).size
       ELSE checkStrategy(s, sa, day).size>> :
        <<s, sa, day, ga>> \in
          {q \in UNION {{<<s, sa, day, ga>> : sa \in StrategyAnswers(s),
                                              day \in 1..MaxDay, ga \in GetAnswers} :
                          s \in SourceApps} :
             /\ checkStrategy(q[1], q[2], q[3]).err = "nil"
             /\ downloadAndHash(checkStrategy(q[1], q[2], q[3]).url, q[4]).err = "nil"}}

FieldsOf(e) == <<e.Version, e.DownloadURL, e.Checksum, e.Size>>

\* The entry is the one catalog.json held before the first run, or all four
\* of its fields come from one successful reconciliation.
FromOneRun(e) == e = LegacyApp \/ FieldsOf(e) \in OneRunFields

\* C20: with a source list of unique IDs that keeps application A, once the
\* persisted catalog holds an entry for A every later persisted catalog holds
\* one, whatever fails in the runs between, and the version, download URL,
\* checksum and size of a persisted entry come from one and the same
\* successful run.
C20_TrackedEntriesSurvive ==
    /\ [](\A id \in DOMAIN PersistedApps : FromOneRun(PersistedApps[id]))
    /\ [][\A id \in DOMAIN PersistedApps :
            (UniqueIDs /\ id \in SourceIDs /\ id \in SourceIDs')
            => id \in DOMAIN PersistedApps']_vars

C20_Witness ==
    /\ run = 2
    /\ pc = "done"
    /\ writes = 1
    /\ UniqueIDs
    /\ SourceIDs = {"a", "b"}
    /\ sources[1].ID = "a"
    /\ last.i = 2
    /\ last.path = "Updated"
    /\ DOMAIN oldApps = {"a", "b"}
    /\ oldApps["a"] # LegacyApp
    /\ PersistedApps["a"] = oldApps["a"]
    /\ PersistedApps["b"] # oldApps["b"]

====
